---- MODULE Spec2Model ----
(***************************************************************************)
(* OAuthTokenManager (oauth-token-manager.js) as a state machine.          *)
(*                                                                         *)
(* One manager instance, the localStorage item under its storageKey, the   *)
(* interval timers of the page, the token-endpoint requests in flight and  *)
(* one makeAuthenticatedRequest call.  Every action is one synchronous     *)
(* run of the code between two awaits.  Time is counted in minutes: the    *)
(* default monitor interval (60000 ms) is one unit, the auto-refresh       *)
(* window (5 * 60 * 1000 ms) is five.                                      *)
(***************************************************************************)
EXTENDS Integers, FiniteSets, Sequences, TLC

\* ---------------------------------------------------------------- bounds
MaxTime == 3
MaxOps == 3
MaxHandles == 2

\* ------------------------------------------------------------- JS values
NULL == "null"
UNDEF == "undefined"
EMPTY == ""

\* tokenExpiry is null or an ISO-8601 string; the string is represented by
\* the instant it encodes, null by NoExpiry.
NoExpiry == -1
\* the number NaN (undefined * 1000, Date.now() + NaN)
NaN == -2
\* expires_in missing from the response JSON
NoExpiresIn == -3

FiveMinutes == 5
IntervalMs == 1
Unauthorized == 401

Truthy(v) == v \notin {NULL, UNDEF, EMPTY}

\* a || b taking a whatever it is
OrElse_takesFirst(a, b) == a

\* a || b on strings
OrElse(a, b) == IF Truthy(a) THEN a ELSE b

\* Date.now() + (data.expires_in * 1000)
ExpiryTime(t, expires_in) == IF expires_in = NoExpiresIn THEN NaN ELSE t + expires_in

\* new Date(ms).toISOString() throws RangeError on an invalid time value
ToISOStringThrows(ms) == ms = NaN

\* new Date(ms).toISOString(), for a valid time value
ToISOString(ms) == ms

\* new Date(iso).getTime()
DateParse(iso) == iso

\* ----------------------------------------------------------- environment
ClientIds == {NULL, "cid"}
ClientSecrets == {NULL, "sec"}
ExpiresIn == {NoExpiresIn, 2, 6}
Statuses == {200, Unauthorized, 403}

\* new URLSearchParams(window.location.search).get('code'): null on a
\* location without the parameter, else the code the provider appended
UrlCodes == {NULL, "code"}

\* a page as the browser opened it: history.state is null
Opened(code) == [code |-> code, historyState |-> NULL]

\* "transport" is a fetch or response.json() rejection
TransportFailure == [kind |-> "transport", access_token |-> UNDEF,
                     refresh_token |-> UNDEF, expires_in |-> NoExpiresIn]

\* what the token endpoint can answer to grant_type=authorization_code
ExchangeResponses ==
    [kind : {"json"}, access_token : {"AT1", UNDEF},
     refresh_token : {"RT1", UNDEF}, expires_in : ExpiresIn]
    \cup {TransportFailure}

\* what the token endpoint can answer to grant_type=refresh_token
RefreshResponses ==
    [kind : {"json"}, access_token : {"AT2", UNDEF},
     refresh_token : {"RT2", UNDEF}, expires_in : ExpiresIn]
    \cup {TransportFailure}

\* the answers to two refresh requests in flight together: each success
\* carries its own access token
RaceResponses ==
    [kind : {"json"}, access_token : {"AT2", "AT3"},
     refresh_token : {"RT2"}, expires_in : {2, 6}]
    \cup {TransportFailure}

VARIABLES
    clientId, clientSecret, accessToken, refreshToken, tokenExpiry,
    stored,          \* localStorage item under storageKey
    storageFull,     \* localStorage.setItem throws (quota exceeded)
    page,            \* window.location's code parameter, history.state
    now,             \* Date.now()
    refreshInterval, \* this.refreshInterval: timer handle, 0 for null
    activeTimers,    \* handles of the intervals that are set
    due,             \* intervals whose callback is queued
    nextHandle,      \* handles handed out by setInterval so far
    pendingRefresh,  \* refreshAccessToken calls awaiting the token endpoint
    pendingExchange, \* exchangeCodeForTokens calls awaiting the endpoint
    mar,             \* the makeAuthenticatedRequest call
    opSeq,           \* asynchronous calls made so far
    ev,              \* what the last step did and returned
    items,           \* localStorage: the payload under each storage key
    sm               \* the last StorageManager call and what it returned

cred == <<clientId, clientSecret, accessToken, refreshToken, tokenExpiry>>
tokens == <<accessToken, refreshToken, tokenExpiry>>
timerVars == <<refreshInterval, activeTimers, due, nextHandle>>
vars == <<clientId, clientSecret, accessToken, refreshToken, tokenExpiry,
          stored, storageFull, page, now, refreshInterval, activeTimers,
          due, nextHandle, pendingRefresh, pendingExchange, mar, opSeq, ev,
          items, sm>>
storeVars == <<items, sm>>
oauthVars == <<clientId, clientSecret, accessToken, refreshToken, tokenExpiry,
               stored, storageFull, page, now, refreshInterval, activeTimers,
               due, nextHandle, pendingRefresh, pendingExchange, mar, opSeq, ev>>

\* ------------------------------------------------------------ the record
NoItem == [kind |-> "none", clientId |-> NULL, clientSecret |-> NULL,
           accessToken |-> NULL, refreshToken |-> NULL, tokenExpiry |-> NoExpiry]

Garbage == [NoItem EXCEPT !.kind = "garbage"]

\* the record written without the client secret
JSONStringify_noSecret(cid, sec, at, rt, exp) ==
    [kind |-> "json", clientId |-> cid, clientSecret |-> NULL,
     accessToken |-> at, refreshToken |-> rt, tokenExpiry |-> exp]

\* JSON.stringify(data): a property whose value is undefined is left out of
\* the text, and reads back as undefined
JSONStringify(cid, sec, at, rt, exp) ==
    [kind |-> "json", clientId |-> cid, clientSecret |-> sec,
     accessToken |-> at, refreshToken |-> rt, tokenExpiry |-> exp]

\* the items a manager of an earlier page load saved after its code
\* exchange, with the refresh token the server sent or withheld
PriorRecords == {JSONStringify("cid", "sec", "AT1", rt, 2) : rt \in {"RT1", UNDEF}}

\* saveToStorage() writing although setItem throws
Saved_writesAnyway(cid, sec, at, rt, exp) == JSONStringify(cid, sec, at, rt, exp)

\* saveToStorage(): the item after the call; setItem throwing leaves it
Saved(cid, sec, at, rt, exp) ==
    IF storageFull THEN stored ELSE JSONStringify(cid, sec, at, rt, exp)

\* ------------------------------------------------------------ the events
\* op: the operation that ran; result: what it returned or threw; cb: the
\* configured callback it invoked; called: it called refreshAccessToken;
\* origin: who started the refresh that completed; expired, auth,
\* value: fields of the returned object
NoEv == [op |-> "init", result |-> "none", cb |-> "none", called |-> FALSE,
         origin |-> "none", expired |-> FALSE, auth |-> FALSE, value |-> "none",
         expiry |-> NoExpiry]

Ev(op, result) == [NoEv EXCEPT !.op = op, !.result = result]

\* the makeAuthenticatedRequest call: where it is, the fetches and refreshes
\* it has made, the status of its first response, what it returned or
\* threw, the status of the returned response, the Authorization headers
\* sent; hadRT and hadClient: whether refreshToken, and clientId with
\* clientSecret, were set when the first response arrived
IdleCall == [pc |-> "idle", attempts |-> 0, refreshes |-> 0, first |-> 0,
             hadRT |-> FALSE, hadClient |-> FALSE,
             result |-> "none", status |-> 0, sent |-> <<>>]

\* -------------------------------------------------------- StorageManager
\* config.namespace || 'app'
Namespaces == {"app", "oauth"}

Keys == {"tokens"}

\* getKey(key): `${this.namespace}_${key}`
getKey(namespace, key) == namespace \o "_" \o key

StorageKeys == {getKey(n, k) : n \in Namespaces, k \in Keys}

Fields == {"clientId", "clientSecret", "accessToken", "refreshToken",
           "tokenExpiry"}

NoProps == [f \in {} |-> NULL]

\* the records handed to save: the five credential fields, each a string or
\* null, and one whose refreshToken is undefined
Records ==
    [Fields -> {"s", NULL}]
      \cup {[f \in Fields |-> IF f = "refreshToken" THEN UNDEF ELSE "s"]}

\* what localStorage.getItem(storageKey) gives: null, "", a text that is not
\* JSON, or the JSON text of an object
NoPayload == [kind |-> "none", props |-> NoProps]
EmptyPayload == [kind |-> "empty", props |-> NoProps]
GarbagePayload == [kind |-> "garbage", props |-> NoProps]

\* JSON.stringify leaving null properties out as well
JSONStringifyData_dropsNull(data) ==
    [kind |-> "object",
     props |-> [f \in {g \in DOMAIN data : data[g] \notin {UNDEF, NULL}}
                  |-> data[f]]]

\* JSON.stringify(data) of an object: the text holds the properties whose
\* value is not undefined
JSONStringifyData(data) ==
    [kind |-> "object",
     props |-> [f \in {g \in DOMAIN data : data[g] # UNDEF} |-> data[f]]]

\* JSON.parse(dataStr) throws a SyntaxError on a text that is not JSON
JSONParseThrows(dataStr) == dataStr.kind = "garbage"

\* JSON.parse(dataStr) of the text of an object
JSONParse(dataStr) == dataStr.props

\* load's defaultValue (null unless the caller passes one)
DefaultValue == [kind |-> "default", props |-> NoProps]

NoCall == [op |-> "none", namespace |-> "none", key |-> "none",
           data |-> NoProps, result |-> "none", value |-> DefaultValue]

\* load without its try/catch
LoadValue_noCatch(dataStr) ==
    IF dataStr.kind \in {"none", "empty"}
    THEN [result |-> "returned", value |-> DefaultValue]
    ELSE IF JSONParseThrows(dataStr)
    THEN [result |-> "threw", value |-> DefaultValue]
    ELSE [result |-> "returned",
          value |-> [kind |-> "object", props |-> JSONParse(dataStr)]]

\* load(key, defaultValue): !dataStr gives the default, a SyntaxError of
\* JSON.parse is caught and gives the default
LoadValue(dataStr) ==
    IF dataStr.kind \in {"none", "empty"}
    THEN [result |-> "returned", value |-> DefaultValue]
    ELSE IF JSONParseThrows(dataStr)
    THEN [result |-> "returned", value |-> DefaultValue]
    ELSE [result |-> "returned",
          value |-> [kind |-> "object", props |-> JSONParse(dataStr)]]

\* load(key) of the manager of this namespace
Load(namespace, key) ==
    LET r == LoadValue(items[getKey(namespace, key)]) IN
    /\ sm' = [NoCall EXCEPT !.op = "load", !.namespace = namespace,
                            !.key = key, !.result = r.result,
                            !.value = r.value]
    /\ UNCHANGED items
    /\ UNCHANGED oauthVars

\* save(key, data) of the manager of this namespace; setItem throwing is
\* caught and gives false
Save(namespace, key, data) ==
    /\ items' = IF storageFull THEN items
                ELSE [items EXCEPT ![getKey(namespace, key)] =
                                       JSONStringifyData(data)]
    /\ sm' = [NoCall EXCEPT !.op = "save", !.namespace = namespace,
                            !.key = key, !.data = data,
                            !.result = IF storageFull THEN "false" ELSE "true"]
    /\ UNCHANGED oauthVars

\* ---------------------------------------------------------------- Init
\* new OAuthTokenManager(config): tokens null, monitor started
Constructed ==
    /\ clientId \in ClientIds
    /\ clientSecret \in ClientSecrets
    /\ accessToken = NULL
    /\ refreshToken = NULL
    /\ tokenExpiry = NoExpiry
    /\ stored \in {NoItem, Garbage} \cup PriorRecords
    /\ storageFull = FALSE
    /\ now = 0
    /\ refreshInterval = 1
    /\ activeTimers = {1}
    /\ due = {}
    /\ nextHandle = 1
    /\ pendingRefresh = {}
    /\ pendingExchange = {}
    /\ mar = IdleCall
    /\ opSeq = 0
    /\ ev = NoEv
    /\ items = [k \in StorageKeys |-> NoPayload]
    /\ sm = NoCall

\* a manager constructed on a page whose location carries no code
Init == Constructed /\ page = Opened(NULL)

\* managers of two namespaces over a localStorage that other code has written
\* to, and that accepts writes or has no room left
InitStore ==
    /\ clientId = "cid"
    /\ clientSecret = "sec"
    /\ accessToken = NULL
    /\ refreshToken = NULL
    /\ tokenExpiry = NoExpiry
    /\ stored = NoItem
    /\ storageFull \in BOOLEAN
    /\ page = Opened(NULL)
    /\ now = 0
    /\ refreshInterval = 1
    /\ activeTimers = {1}
    /\ due = {}
    /\ nextHandle = 1
    /\ pendingRefresh = {}
    /\ pendingExchange = {}
    /\ mar = IdleCall
    /\ opSeq = 0
    /\ ev = NoEv
    /\ items \in [StorageKeys -> {NoPayload, EmptyPayload, GarbagePayload}]
    /\ sm = NoCall

\* a manager constructed on the page of the redirect URI: the provider sent
\* the browser back with a code, or the page was opened without one
InitCallback == Constructed /\ page \in {Opened(c) : c \in UrlCodes}

\* -------------------------------------------------- synchronous operations
\* loadFromStorage(): getItem null or JSON.parse throwing returns false
LoadFromStorage ==
    /\ IF stored.kind = "json"
       THEN /\ clientId' = OrElse(stored.clientId, clientId)
            /\ clientSecret' = OrElse(stored.clientSecret, clientSecret)
            /\ accessToken' = OrElse(stored.accessToken, NULL)
            /\ refreshToken' = OrElse(stored.refreshToken, NULL)
            /\ tokenExpiry' = stored.tokenExpiry
            /\ ev' = Ev("loadFromStorage", "true")
       ELSE /\ UNCHANGED cred
            /\ ev' = Ev("loadFromStorage", "false")
    /\ UNCHANGED <<stored, storageFull, page, now, timerVars, pendingRefresh,
                   pendingExchange, mar, opSeq>>
    /\ UNCHANGED storeVars

\* updateCredentials(clientId, clientSecret)
UpdateCredentials(cid, sec) ==
    /\ clientId' = cid
    /\ clientSecret' = sec
    /\ stored' = Saved(cid, sec, accessToken, refreshToken, tokenExpiry)
    /\ ev' = Ev("updateCredentials", "ok")
    /\ UNCHANGED <<tokens, storageFull, page, now, timerVars, pendingRefresh,
                   pendingExchange, mar, opSeq>>
    /\ UNCHANGED storeVars

\* a direct call of saveToStorage(): true, or false when setItem throws
SaveToStorage ==
    /\ stored' = Saved(clientId, clientSecret, accessToken, refreshToken,
                       tokenExpiry)
    /\ ev' = Ev("saveToStorage", IF storageFull THEN "false" ELSE "true")
    /\ UNCHANGED <<cred, storageFull, page, now, timerVars, pendingRefresh,
                   pendingExchange, mar, opSeq>>
    /\ UNCHANGED storeVars

\* clearTokens() leaving the refresh token
ClearTokens_keepsRefresh ==
    /\ accessToken' = NULL
    /\ refreshToken' = refreshToken
    /\ tokenExpiry' = NoExpiry
    /\ stored' = Saved(clientId, clientSecret, NULL, refreshToken, NoExpiry)
    /\ ev' = Ev("clearTokens", "ok")
    /\ UNCHANGED <<clientId, clientSecret, storageFull, page, now, timerVars,
                   pendingRefresh, pendingExchange, mar, opSeq>>
    /\ UNCHANGED storeVars

\* clearTokens()
ClearTokens ==
    /\ accessToken' = NULL
    /\ refreshToken' = NULL
    /\ tokenExpiry' = NoExpiry
    /\ stored' = Saved(clientId, clientSecret, NULL, NULL, NoExpiry)
    /\ ev' = Ev("clearTokens", "ok")
    /\ UNCHANGED <<clientId, clientSecret, storageFull, page, now, timerVars,
                   pendingRefresh, pendingExchange, mar, opSeq>>
    /\ UNCHANGED storeVars

\* getAuthHeaders() without its guard
NoTokenAvailable_never(at) == FALSE

\* getAuthHeaders(): the guard of its throw
NoTokenAvailable(at) == ~Truthy(at)

\* the header carrying the bare token
BearerHeader_bare(at) == at

\* getAuthHeaders(): the Authorization header
BearerHeader(at) == "Bearer " \o at

GetAuthHeaders ==
    /\ ev' = IF NoTokenAvailable(accessToken)
             THEN Ev("getAuthHeaders", "NoTokenError")
             ELSE [Ev("getAuthHeaders", "ok") EXCEPT !.value = BearerHeader(accessToken)]
    /\ UNCHANGED <<cred, stored, storageFull, page, now, timerVars, pendingRefresh,
                   pendingExchange, mar, opSeq>>
    /\ UNCHANGED storeVars

\* ------------------------------------------------------ refreshAccessToken
\* the guard forgetting the refresh token
RefreshPrecondition_noToken(cid, sec, rt) == Truthy(cid) /\ Truthy(sec)

\* the guard at the head of refreshAccessToken
RefreshPrecondition(cid, sec, rt) == Truthy(rt) /\ Truthy(cid) /\ Truthy(sec)

\* refreshAccessToken as a plain function: its guard throws at the caller
RefreshCallOutcome_sync(cid, sec, rt) ==
    IF RefreshPrecondition(cid, sec, rt) THEN "pending" ELSE "thrown"

\* refreshAccessToken behind a single-flight guard
RefreshCallOutcome_singleFlight(cid, sec, rt) ==
    IF RefreshPrecondition(cid, sec, rt) /\ pendingRefresh = {}
    THEN "pending" ELSE "rejected"

\* what a call of the async function hands its caller before the first
\* await: a promise already rejected by the guard, or a pending one with the
\* POST to the token endpoint sent
RefreshCallOutcome(cid, sec, rt) ==
    IF RefreshPrecondition(cid, sec, rt) THEN "pending" ELSE "rejected"

\* the call itself: the POST is in flight iff the guard passed
CallRefresh(origin) ==
    /\ opSeq < MaxOps
    /\ opSeq' = opSeq + 1
    /\ pendingRefresh' =
          IF RefreshCallOutcome(clientId, clientSecret, refreshToken) = "pending"
          THEN pendingRefresh \cup {[id |-> opSeq + 1, origin |-> origin]}
          ELSE pendingRefresh

\* a direct call of refreshAccessToken()
RefreshCall ==
    /\ CallRefresh("direct")
    /\ ev' = [Ev("refreshAccessToken",
                 IF RefreshCallOutcome(clientId, clientSecret, refreshToken) = "pending"
                 THEN "pending" ELSE "ConfigError")
              EXCEPT !.called = TRUE, !.origin = "direct"]
    /\ UNCHANGED <<cred, stored, storageFull, page, now, timerVars,
                   pendingExchange, mar>>
    /\ UNCHANGED storeVars

\* the refresh keeping the expiry it held
RefreshApply_staleExpiry(resp, t, at, exp) ==
    IF resp.kind = "json" /\ Truthy(resp.access_token)
          /\ ~ToISOStringThrows(ExpiryTime(t, resp.expires_in))
    THEN [result |-> "ok", accessToken |-> resp.access_token,
          tokenExpiry |-> exp, save |-> TRUE]
    ELSE [result |-> "RefreshError", accessToken |-> at, tokenExpiry |-> exp,
          save |-> FALSE]

\* the code after `await response.json()`: what it assigns before it returns
\* or throws
RefreshApply(resp, t, at, exp) ==
    IF resp.kind = "transport"
    THEN [result |-> "TransportError", accessToken |-> at, tokenExpiry |-> exp,
          save |-> FALSE]
    ELSE IF Truthy(resp.access_token)
    THEN IF ToISOStringThrows(ExpiryTime(t, resp.expires_in))
         THEN [result |-> "RangeError", accessToken |-> resp.access_token,
               tokenExpiry |-> exp, save |-> FALSE]
         ELSE [result |-> "ok", accessToken |-> resp.access_token,
               tokenExpiry |-> ToISOString(ExpiryTime(t, resp.expires_in)),
               save |-> TRUE]
    ELSE [result |-> "RefreshError", accessToken |-> at, tokenExpiry |-> exp,
          save |-> FALSE]

\* the retry sent although the refresh was rejected
AfterRefresh_ignoresFailure(call, result, at) ==
    IF NoTokenAvailable(at)
    THEN [call EXCEPT !.pc = "done", !.result = "NoTokenError"]
    ELSE [call EXCEPT !.pc = "fetch2", !.attempts = call.attempts + 1,
                      !.sent = Append(call.sent, BearerHeader(at))]

\* makeAuthenticatedRequest after `await this.refreshAccessToken()`: the
\* retry is sent with the headers of the moment, a rejection is rethrown
AfterRefresh(call, result, at) ==
    IF result # "ok"
    THEN [call EXCEPT !.pc = "done", !.result = result]
    ELSE IF NoTokenAvailable(at)
    THEN [call EXCEPT !.pc = "done", !.result = "NoTokenError"]
    ELSE [call EXCEPT !.pc = "fetch2", !.attempts = call.attempts + 1,
                      !.sent = Append(call.sent, BearerHeader(at))]

\* the success callback firing whatever the outcome
RefreshNotifies_always(result) == TRUE

\* tokenRefreshCallback(accessToken, tokenExpiry) is called on the success
\* path only, after the assignments and saveToStorage
RefreshNotifies(result) == result = "ok"

\* the expiry callback firing for every failed refresh, whoever started it
ExpiryNotifies_anyOrigin(origin, result) == result # "ok"

\* tokenExpiryCallback(error) is called by the .catch that checkTokenExpiry
\* attaches to the refresh it started
ExpiryNotifies(origin, result) == origin = "check" /\ result # "ok"

\* the token endpoint answers refresh r with resp (or the transport fails):
\* refreshAccessToken runs to its end, then the continuation of its caller
RefreshComplete(r, resp) ==
    LET a == RefreshApply(resp, now, accessToken, tokenExpiry) IN
    /\ r \in pendingRefresh
    /\ pendingRefresh' = pendingRefresh \ {r}
    /\ accessToken' = a.accessToken
    /\ tokenExpiry' = a.tokenExpiry
    /\ stored' = IF a.save
                 THEN Saved(clientId, clientSecret, a.accessToken, refreshToken,
                            a.tokenExpiry)
                 ELSE stored
    /\ mar' = IF r.origin = "request" THEN AfterRefresh(mar, a.result, a.accessToken)
              ELSE mar
    /\ ev' = [Ev("refreshDone", a.result) EXCEPT
                !.origin = r.origin,
                !.value = IF a.result = "ok" THEN a.accessToken ELSE "none",
                !.expiry = IF a.result = "ok" THEN a.tokenExpiry ELSE NoExpiry,
                !.cb = IF RefreshNotifies(a.result) THEN "onTokenRefresh"
                       ELSE IF ExpiryNotifies(r.origin, a.result)
                       THEN "onTokenExpiry"
                       ELSE "none"]
    /\ UNCHANGED <<clientId, clientSecret, refreshToken, storageFull, page, now,
                   timerVars, pendingExchange, opSeq>>
    /\ UNCHANGED storeVars

\* --------------------------------------------------- exchangeCodeForTokens
\* the guard forgetting the client secret
ExchangePrecondition_noSecret(cid, sec) == Truthy(cid)

\* the guard at the head of exchangeCodeForTokens
ExchangePrecondition(cid, sec) == Truthy(cid) /\ Truthy(sec)

\* the call up to its first await: the guard throws, or the POST to the
\* token endpoint is in flight; origin is the caller awaiting it
CallExchange(origin) ==
    /\ opSeq < MaxOps
    /\ opSeq' = opSeq + 1
    /\ pendingExchange' =
          IF ExchangePrecondition(clientId, clientSecret)
          THEN pendingExchange \cup {[id |-> opSeq + 1, origin |-> origin]}
          ELSE pendingExchange

\* a direct call of exchangeCodeForTokens(code)
ExchangeCall ==
    /\ CallExchange("direct")
    /\ ev' = [Ev("exchangeCodeForTokens",
                 IF ExchangePrecondition(clientId, clientSecret)
                 THEN "pending" ELSE "ConfigError")
              EXCEPT !.origin = "direct"]
    /\ UNCHANGED <<cred, stored, storageFull, page, now, timerVars,
                   pendingRefresh, mar>>
    /\ UNCHANGED storeVars

\* handleAuthCallback() without its test of the code
HasCode_always(code) == TRUE

\* handleAuthCallback(): `if (!code) return false`
HasCode(code) == Truthy(code)

\* handleAuthCallback() up to its await: false on a location without a
\* code, else exchangeCodeForTokens(code) is called and its rejection by the
\* guard is rethrown
HandleAuthCallback ==
    /\ IF HasCode(page.code)
       THEN /\ CallExchange("callback")
            /\ ev' = [Ev("handleAuthCallback",
                         IF ExchangePrecondition(clientId, clientSecret)
                         THEN "pending" ELSE "ConfigError")
                      EXCEPT !.origin = "callback"]
       ELSE /\ ev' = Ev("handleAuthCallback", "false")
            /\ UNCHANGED <<pendingExchange, opSeq>>
    /\ UNCHANGED <<cred, stored, storageFull, page, now, timerVars,
                   pendingRefresh, mar>>
    /\ UNCHANGED storeVars

\* the exchange keeping the refresh token it held
ExchangeApply_keepsRefresh(resp, t, at, rt, exp) ==
    IF resp.kind = "json" /\ Truthy(resp.access_token)
          /\ ~ToISOStringThrows(ExpiryTime(t, resp.expires_in))
    THEN [result |-> "ok", accessToken |-> resp.access_token, refreshToken |-> rt,
          tokenExpiry |-> ToISOString(ExpiryTime(t, resp.expires_in)),
          save |-> TRUE]
    ELSE [result |-> "ExchangeError", accessToken |-> at, refreshToken |-> rt,
          tokenExpiry |-> exp, save |-> FALSE]

\* the code after `await response.json()` of exchangeCodeForTokens
ExchangeApply(resp, t, at, rt, exp) ==
    IF resp.kind = "transport"
    THEN [result |-> "TransportError", accessToken |-> at, refreshToken |-> rt,
          tokenExpiry |-> exp, save |-> FALSE]
    ELSE IF Truthy(resp.access_token)
    THEN IF ToISOStringThrows(ExpiryTime(t, resp.expires_in))
         THEN [result |-> "RangeError", accessToken |-> resp.access_token,
               refreshToken |-> resp.refresh_token, tokenExpiry |-> exp,
               save |-> FALSE]
         ELSE [result |-> "ok", accessToken |-> resp.access_token,
               refreshToken |-> resp.refresh_token,
               tokenExpiry |-> ToISOString(ExpiryTime(t, resp.expires_in)),
               save |-> TRUE]
    ELSE [result |-> "ExchangeError", accessToken |-> at, refreshToken |-> rt,
          tokenExpiry |-> exp, save |-> FALSE]

\* the location keeping its search string
CleanUrl_keepsCode(pg) == [pg EXCEPT !.historyState = "{}"]

\* history.replaceState({}, document.title, window.location.pathname): the
\* search string, and the code in it, are gone from the location
CleanUrl(pg) == [code |-> NULL, historyState |-> "{}"]

\* the token endpoint answers exchange x with resp (or the transport fails):
\* exchangeCodeForTokens runs to its end; handleAuthCallback awaiting it
\* cleans the location and returns true, or rethrows
ExchangeComplete(x, resp) ==
    LET a == ExchangeApply(resp, now, accessToken, refreshToken, tokenExpiry) IN
    /\ x \in pendingExchange
    /\ pendingExchange' = pendingExchange \ {x}
    /\ accessToken' = a.accessToken
    /\ refreshToken' = a.refreshToken
    /\ tokenExpiry' = a.tokenExpiry
    /\ stored' = IF a.save
                 THEN Saved(clientId, clientSecret, a.accessToken, a.refreshToken,
                            a.tokenExpiry)
                 ELSE stored
    /\ page' = IF x.origin = "callback" /\ a.result = "ok"
               THEN CleanUrl(page) ELSE page
    /\ ev' = [Ev("exchangeDone", a.result) EXCEPT
                !.origin = x.origin,
                !.value = IF a.result = "ok" THEN a.accessToken ELSE "none",
                !.expiry = IF a.result = "ok" THEN a.tokenExpiry ELSE NoExpiry,
                !.cb = IF RefreshNotifies(a.result) THEN "onTokenRefresh"
                       ELSE "none"]
    /\ UNCHANGED <<clientId, clientSecret, storageFull, now, timerVars,
                   pendingRefresh, mar, opSeq>>
    /\ UNCHANGED storeVars

\* -------------------------------------------------------- checkTokenExpiry
\* the monitor never finding the token in its window
InRefreshWindow_never(timeLeft) == FALSE

\* the condition without its lower bound
InRefreshWindow_noLowerBound(timeLeft) == timeLeft < FiveMinutes

\* the auto-refresh condition
InRefreshWindow(timeLeft) == timeLeft < FiveMinutes /\ timeLeft > 0

\* checkTokenExpiry() called by op: it returns null, or the expiry object
\* after calling refreshAccessToken() when in the window; the rejection of
\* that promise reaches only the .catch handler
CheckTokenExpiry(op) ==
    LET timeLeft == DateParse(tokenExpiry) - now
        outcome == RefreshCallOutcome(clientId, clientSecret, refreshToken)
        authNull == Truthy(accessToken)
        authInfo == Truthy(accessToken) /\ ~(timeLeft <= 0)
    IN
    IF tokenExpiry = NoExpiry \/ ~Truthy(refreshToken)
    THEN /\ ev' = [Ev(op, "null") EXCEPT !.auth = authNull]
         /\ UNCHANGED <<pendingRefresh, opSeq>>
    ELSE IF InRefreshWindow(timeLeft)
    THEN /\ CallRefresh("check")
         /\ ev' = [Ev(op, IF outcome = "thrown" THEN "threw" ELSE "info") EXCEPT
                     !.called = TRUE, !.expired = timeLeft <= 0,
                     !.auth = authInfo,
                     !.cb = IF outcome = "rejected" THEN "onTokenExpiry" ELSE "none"]
    ELSE /\ ev' = [Ev(op, "info") EXCEPT !.expired = timeLeft <= 0,
                                         !.auth = authInfo]
         /\ UNCHANGED <<pendingRefresh, opSeq>>

\* a direct call of checkTokenExpiry()
CheckDirect ==
    /\ CheckTokenExpiry("checkTokenExpiry")
    /\ UNCHANGED <<cred, stored, storageFull, page, now, timerVars,
                   pendingExchange, mar>>
    /\ UNCHANGED storeVars

\* getStatus(): delegates to checkTokenExpiry()
GetStatus ==
    /\ CheckTokenExpiry("getStatus")
    /\ UNCHANGED <<cred, stored, storageFull, page, now, timerVars,
                   pendingExchange, mar>>
    /\ UNCHANGED storeVars

\* --------------------------------------------------------------- the timer
\* startTokenExpiryCheck() without its clearInterval
StartTokenExpiryCheck_leak ==
    /\ nextHandle < MaxHandles
    /\ nextHandle' = nextHandle + 1
    /\ refreshInterval' = nextHandle + 1
    /\ activeTimers' = activeTimers \cup {nextHandle + 1}
    /\ due' = due
    /\ ev' = Ev("startTokenExpiryCheck", "ok")
    /\ UNCHANGED <<cred, stored, storageFull, page, now, pendingRefresh,
                   pendingExchange, mar, opSeq>>
    /\ UNCHANGED storeVars

\* startTokenExpiryCheck(): clears the held interval, sets a new one
StartTokenExpiryCheck ==
    /\ nextHandle < MaxHandles
    /\ nextHandle' = nextHandle + 1
    /\ refreshInterval' = nextHandle + 1
    /\ activeTimers' = (activeTimers \ {refreshInterval}) \cup {nextHandle + 1}
    /\ due' = due \ {refreshInterval}
    /\ ev' = Ev("startTokenExpiryCheck", "ok")
    /\ UNCHANGED <<cred, stored, storageFull, page, now, pendingRefresh,
                   pendingExchange, mar, opSeq>>
    /\ UNCHANGED storeVars

\* stopTokenExpiryCheck()
StopTokenExpiryCheck ==
    /\ IF refreshInterval # 0
       THEN /\ activeTimers' = activeTimers \ {refreshInterval}
            /\ due' = due \ {refreshInterval}
            /\ refreshInterval' = 0
       ELSE UNCHANGED <<activeTimers, due, refreshInterval>>
    /\ ev' = Ev("stopTokenExpiryCheck", "ok")
    /\ UNCHANGED <<cred, stored, storageFull, page, now, nextHandle,
                   pendingRefresh, pendingExchange, mar, opSeq>>
    /\ UNCHANGED storeVars

\* the interval callback of handle h runs
TimerFire(h) ==
    /\ h \in due
    /\ due' = due \ {h}
    /\ CheckTokenExpiry("timer")
    /\ UNCHANGED <<cred, stored, storageFull, page, now, refreshInterval,
                   activeTimers, nextHandle, pendingExchange, mar>>
    /\ UNCHANGED storeVars

\* IntervalMs pass, on a clock observed up to limit: every set interval
\* becomes due; the queued callbacks run before the next interval elapses
Elapse(limit) ==
    /\ now < limit
    /\ due = {}
    /\ now' = now + IntervalMs
    /\ due' = activeTimers
    /\ ev' = Ev("tick", "ok")
    /\ UNCHANGED <<cred, stored, storageFull, page, refreshInterval, activeTimers,
                   nextHandle, pendingRefresh, pendingExchange, mar, opSeq>>
    /\ UNCHANGED storeVars

Tick == Elapse(MaxTime)

\* ------------------------------------------------ makeAuthenticatedRequest
\* the retry branch never taken
ShouldRetry_never(status, rt) == FALSE

\* the retry branch taken without a refresh token
ShouldRetry_anyToken(status, rt) == status = Unauthorized

\* the retry branch taken on any status
ShouldRetry_anyStatus(status, rt) == Truthy(rt)

\* the condition of the retry branch
ShouldRetry(status, rt) == status = Unauthorized /\ Truthy(rt)

\* the call up to its first await: getAuthHeaders() may throw, else the
\* request is sent
MarCall ==
    /\ mar.pc \in {"idle", "done"}
    /\ opSeq < MaxOps
    /\ opSeq' = opSeq + 1
    /\ mar' = IF NoTokenAvailable(accessToken)
              THEN [IdleCall EXCEPT !.pc = "done", !.result = "NoTokenError"]
              ELSE [IdleCall EXCEPT !.pc = "fetch1", !.attempts = 1,
                                    !.sent = <<BearerHeader(accessToken)>>]
    /\ ev' = Ev("makeAuthenticatedRequest",
                IF NoTokenAvailable(accessToken) THEN "NoTokenError" ELSE "pending")
    /\ UNCHANGED <<cred, stored, storageFull, page, now, timerVars, pendingRefresh,
                   pendingExchange>>
    /\ UNCHANGED storeVars

\* the first fetch settles: status 0 stands for its rejection
MarFirstResponse(status) ==
    LET call == [mar EXCEPT !.first = status,
                            !.hadRT = Truthy(refreshToken),
                            !.hadClient = Truthy(clientId) /\ Truthy(clientSecret)]
    IN
    /\ mar.pc = "fetch1"
    /\ IF status = 0
       THEN /\ mar' = [mar EXCEPT !.pc = "done", !.result = "TransportError"]
            /\ ev' = Ev("firstResponse", "TransportError")
            /\ UNCHANGED <<pendingRefresh, opSeq>>
       ELSE IF ShouldRetry(status, refreshToken)
       THEN LET outcome == RefreshCallOutcome(clientId, clientSecret, refreshToken) IN
            /\ CallRefresh("request")
            /\ mar' = IF outcome = "pending"
                      THEN [call EXCEPT !.pc = "refresh",
                                        !.refreshes = mar.refreshes + 1]
                      ELSE [call EXCEPT !.pc = "done",
                                        !.refreshes = mar.refreshes + 1,
                                        !.result = "ConfigError"]
            /\ ev' = [Ev("firstResponse",
                         IF outcome = "pending" THEN "pending" ELSE "ConfigError")
                      EXCEPT !.called = TRUE]
       ELSE /\ mar' = [call EXCEPT !.pc = "done", !.result = "first",
                                   !.status = status]
            /\ ev' = Ev("firstResponse", "first")
            /\ UNCHANGED <<pendingRefresh, opSeq>>
    /\ UNCHANGED <<cred, stored, storageFull, page, now, timerVars,
                   pendingExchange>>
    /\ UNCHANGED storeVars

\* the second fetch settles; its promise is what the call returned
MarSecondResponse(status) ==
    /\ mar.pc = "fetch2"
    /\ mar' = IF status = 0
              THEN [mar EXCEPT !.pc = "done", !.result = "TransportError"]
              ELSE [mar EXCEPT !.pc = "done", !.result = "second", !.status = status]
    /\ ev' = Ev("secondResponse", IF status = 0 THEN "TransportError" ELSE "second")
    /\ UNCHANGED <<cred, stored, storageFull, page, now, timerVars, pendingRefresh,
                   pendingExchange, opSeq>>
    /\ UNCHANGED storeVars

\* ------------------------------------------------------ specifications
\* the credential operations
CredentialStep ==
    \/ LoadFromStorage
    \/ \E cid \in ClientIds, sec \in ClientSecrets : UpdateCredentials(cid, sec)
    \/ ClearTokens
    \/ ExchangeCall
    \/ \E x \in pendingExchange, resp \in ExchangeResponses : ExchangeComplete(x, resp)
    \/ \E r \in pendingRefresh, resp \in RefreshResponses : RefreshComplete(r, resp)

\* the credential operations around one makeAuthenticatedRequest call
Next ==
    \/ CredentialStep
    \/ GetAuthHeaders
    \/ RefreshCall
    \/ MarCall
    \/ \E status \in Statuses \cup {0} : MarFirstResponse(status)
    \/ \E status \in Statuses \cup {0} : MarSecondResponse(status)

Spec == Init /\ [][Next]_vars

\* a reloaded page under the clock and the expiry monitor: the credential
\* comes from the stored record and from the refreshes the checks start
NextMonitor ==
    \/ LoadFromStorage
    \/ \E cid \in ClientIds, sec \in ClientSecrets : UpdateCredentials(cid, sec)
    \/ ClearTokens
    \/ \E r \in pendingRefresh, resp \in RefreshResponses : RefreshComplete(r, resp)
    \/ CheckDirect
    \/ GetStatus
    \/ StartTokenExpiryCheck
    \/ StopTokenExpiryCheck
    \/ \E h \in due : TimerFire(h)
    \/ Tick

SpecMonitor == Init /\ [][NextMonitor]_vars

\* the page of the redirect URI, for each configuration of the manager: the
\* token operations, the completion of the authorization and the queries of
\* the outcome
NextCallback ==
    \/ LoadFromStorage
    \/ ClearTokens
    \/ ExchangeCall
    \/ HandleAuthCallback
    \/ \E x \in pendingExchange, resp \in ExchangeResponses : ExchangeComplete(x, resp)
    \/ \E r \in pendingRefresh, resp \in RefreshResponses : RefreshComplete(r, resp)
    \/ GetStatus
    \/ GetAuthHeaders

SpecCallback == InitCallback /\ [][NextCallback]_vars

\* a reloaded page on which a request and the monitor both refresh
NextRace ==
    \/ LoadFromStorage
    \/ MarCall
    \/ \E status \in Statuses \cup {0} : MarFirstResponse(status)
    \/ \E status \in Statuses \cup {0} : MarSecondResponse(status)
    \/ \E h \in due : TimerFire(h)
    \/ Tick
    \/ \E r \in pendingRefresh, resp \in RaceResponses : RefreshComplete(r, resp)

SpecRace == Init /\ [][NextRace]_vars

\* the credential operations over a localStorage that may refuse writes
NextQuota ==
    \/ \E cid \in ClientIds, sec \in ClientSecrets : UpdateCredentials(cid, sec)
    \/ ClearTokens
    \/ ExchangeCall
    \/ \E x \in pendingExchange, resp \in ExchangeResponses :
         ExchangeComplete(x, resp)
    \/ \E r \in pendingRefresh, resp \in RefreshResponses :
         RefreshComplete(r, resp)
    \/ GetAuthHeaders
    \/ RefreshCall
    \/ SaveToStorage

\* a manager constructed where localStorage accepts writes, or where setItem
\* throws (no room left, or a browsing mode that refuses writes) while
\* getItem still answers
InitQuota ==
    /\ clientId \in ClientIds
    /\ clientSecret \in ClientSecrets
    /\ accessToken = NULL
    /\ refreshToken = NULL
    /\ tokenExpiry = NoExpiry
    /\ stored \in {NoItem, Garbage} \cup PriorRecords
    /\ storageFull \in BOOLEAN
    /\ page = Opened(NULL)
    /\ now = 0
    /\ refreshInterval = 1
    /\ activeTimers = {1}
    /\ due = {}
    /\ nextHandle = 1
    /\ pendingRefresh = {}
    /\ pendingExchange = {}
    /\ mar = IdleCall
    /\ opSeq = 0
    /\ ev = NoEv
    /\ items = [k \in StorageKeys |-> NoPayload]
    /\ sm = NoCall

SpecQuota == InitQuota /\ [][NextQuota]_vars

\* the clock of the lifetime runs: past the refresh window of a token that
\* starts with more than five minutes left
Horizon == FiveMinutes + MaxTime

\* token lifetimes longer than FiveMinutes at construction time
LongExpiries == {FiveMinutes + 1, FiveMinutes + 2}

\* the token endpoint answering every refresh with a token and a lifetime
SuccessResponses == {resp \in RefreshResponses :
                        /\ resp.kind # "transport"
                        /\ Truthy(resp.access_token)
                        /\ resp.expires_in # NoExpiresIn}

\* a manager holding client id, client secret, refresh token and an access
\* token with more than five minutes left, its monitor running
InitLifetime ==
    /\ clientId = "cid"
    /\ clientSecret = "sec"
    /\ accessToken = "AT1"
    /\ refreshToken = "RT1"
    /\ tokenExpiry \in LongExpiries
    /\ stored = JSONStringify("cid", "sec", "AT1", "RT1", tokenExpiry)
    /\ storageFull = FALSE
    /\ page = Opened(NULL)
    /\ now = 0
    /\ refreshInterval = 1
    /\ activeTimers = {1}
    /\ due = {}
    /\ nextHandle = 1
    /\ pendingRefresh = {}
    /\ pendingExchange = {}
    /\ mar = IdleCall
    /\ opSeq = 0
    /\ ev = NoEv
    /\ items = [k \in StorageKeys |-> NoPayload]
    /\ sm = NoCall

\* the monitor over the lifetime of a token: the interval elapses, its
\* callback runs, the endpoint answers a refresh at some moment
NextLifetime ==
    \/ Elapse(Horizon)
    \/ \E h \in due : TimerFire(h)
    \/ \E r \in pendingRefresh, resp \in SuccessResponses :
         RefreshComplete(r, resp)

SpecLifetime == InitLifetime /\ [][NextLifetime]_vars

\* every way a refresh or an exchange is started (a check, a direct call, a
\* request answered 401), with the client credentials replaced meanwhile
NextNotify ==
    \/ LoadFromStorage
    \/ \E sec \in ClientSecrets : UpdateCredentials("cid", sec)
    \/ CheckDirect
    \/ RefreshCall
    \/ ExchangeCall
    \/ \E x \in pendingExchange, resp \in ExchangeResponses :
         ExchangeComplete(x, resp)
    \/ \E r \in pendingRefresh, resp \in RefreshResponses :
         RefreshComplete(r, resp)
    \/ MarCall
    \/ \E status \in Statuses \cup {0} : MarFirstResponse(status)
    \/ \E status \in Statuses \cup {0} : MarSecondResponse(status)

SpecNotify == Init /\ [][NextNotify]_vars

\* the records another manager of the same storage key may have left: client
\* id and secret null, empty, missing or set, tokens and expiry set or not
LoadableRecords ==
    {JSONStringify(cid, sec, at, rt, exp) :
        cid \in {NULL, EMPTY, "cid2"}, sec \in {UNDEF, "sec2"},
        at \in {NULL, "AT1"}, rt \in {UNDEF, "RT1"}, exp \in {NoExpiry, 2}}

\* a manager with any credential in memory over any item in storage
InitLoad ==
    /\ clientId \in ClientIds
    /\ clientSecret \in ClientSecrets
    /\ accessToken \in {NULL, "AT0"}
    /\ refreshToken \in {NULL, "RT0"}
    /\ tokenExpiry \in {NoExpiry, 3}
    /\ stored \in {NoItem, Garbage} \cup LoadableRecords
    /\ storageFull = FALSE
    /\ page = Opened(NULL)
    /\ now = 0
    /\ refreshInterval = 1
    /\ activeTimers = {1}
    /\ due = {}
    /\ nextHandle = 1
    /\ pendingRefresh = {}
    /\ pendingExchange = {}
    /\ mar = IdleCall
    /\ opSeq = 0
    /\ ev = NoEv
    /\ items = [k \in StorageKeys |-> NoPayload]
    /\ sm = NoCall

\* loadFromStorage() applied to each of them
NextLoad == LoadFromStorage

SpecLoad == InitLoad /\ [][NextLoad]_vars

\* save and load calls of the StorageManagers of the two namespaces
NextStore ==
    \/ \E n \in Namespaces, k \in Keys, data \in Records : Save(n, k, data)
    \/ \E n \in Namespaces, k \in Keys : Load(n, k)

SpecStore == InitStore /\ [][NextStore]_vars

\* ================================================================ claims
Absent(v) == v \in {NULL, UNDEF, EMPTY}

CheckOps == {"checkTokenExpiry", "timer", "getStatus"}

RefreshFailures == {"ConfigError", "RefreshError", "RangeError", "TransportError"}

\* C1 (as stated): a call whose first response was 401 while a refresh token
\* was held has made one refresh and two request attempts and returned the
\* second response.
C1_AlwaysReissues ==
    (mar.pc = "done" /\ mar.first = Unauthorized /\ mar.hadRT)
        => (mar.refreshes = 1 /\ mar.attempts = 2 /\ mar.result = "second")

\* C1 (amended): a call never makes more than two request attempts or more
\* than one refresh; a first 401 with a refresh token held makes exactly one
\* refreshAccessToken call; when that refresh succeeds the request is
\* reissued exactly once and the call ends with the second response (whatever
\* its status) or the second fetch's rejection; when it fails the call rejects
\* after one attempt.
C1_RetryBound ==
    /\ mar.attempts <= 2
    /\ mar.refreshes <= 1
    /\ (mar.pc \in {"refresh", "fetch2"}) => (mar.first = Unauthorized /\ mar.hadRT)
    /\ (mar.pc \in {"refresh", "fetch2", "done"} /\ mar.first = Unauthorized /\ mar.hadRT)
          => mar.refreshes = 1
    /\ mar.pc = "refresh" => mar.attempts = 1
    /\ mar.pc = "fetch2" => mar.attempts = 2
    /\ (mar.pc = "done" /\ mar.first = Unauthorized /\ mar.hadRT)
          => \/ mar.result = "second" /\ mar.attempts = 2
                 /\ mar.status \in Statuses
             \/ mar.result = "TransportError" /\ mar.attempts \in {1, 2}
             \/ mar.result \in RefreshFailures /\ mar.attempts = 1
    /\ (mar.pc = "done" /\ mar.result = "second")
          => (mar.first = Unauthorized /\ mar.hadRT /\ mar.attempts = 2)

\* C1 witness: 401 twice, one refresh in between, the second 401 returned
C1_Witness ==
    /\ mar.pc = "done" /\ mar.first = Unauthorized /\ mar.result = "second"
    /\ mar.status = Unauthorized /\ mar.attempts = 2 /\ mar.refreshes = 1

\* C2 (as stated): a refreshAccessToken that rejects leaves accessToken,
\* refreshToken, tokenExpiry and the persisted record as they were.
C2_FailedRefreshKeepsState ==
    [][(ev'.op = "refreshDone" /\ pendingRefresh' # pendingRefresh
            /\ ev'.result # "ok")
          => UNCHANGED <<accessToken, refreshToken, tokenExpiry, stored>>]_vars

\* C3 (as stated): a non-empty refreshToken stays non-empty through every
\* operation but clearTokens (and a reload from storage).
C3_RefreshTokenPersists ==
    [][(~Absent(refreshToken) /\ ev'.op \notin {"clearTokens", "loadFromStorage"})
          => ~Absent(refreshToken')]_vars

\* C4 (as stated): accessToken is present iff tokenExpiry is present.
C4_TokenAndExpiryTogether ==
    ~Absent(accessToken) <=> tokenExpiry # NoExpiry

\* C5 (as stated): a first 401 without refresh capability (no refreshToken, or
\* no clientId or clientSecret) is returned to the caller.
C5_NoCapabilityReturnsFirst ==
    (mar.pc = "done" /\ mar.first = Unauthorized /\ (~mar.hadRT \/ ~mar.hadClient))
        => (mar.result = "first" /\ mar.status = Unauthorized)

\* C5 (amended): a first 401 with no refreshToken held is returned to the
\* caller, after one attempt and no refresh; with a refreshToken but without
\* clientId or clientSecret the call rejects with the configuration error of
\* refreshAccessToken.
C5_NoRefreshTokenReturnsFirst ==
    /\ (mar.pc = "done" /\ mar.first = Unauthorized /\ ~mar.hadRT)
          => (mar.result = "first" /\ mar.status = Unauthorized
              /\ mar.attempts = 1 /\ mar.refreshes = 0)
    /\ (mar.pc = "done" /\ mar.first = Unauthorized /\ mar.hadRT /\ ~mar.hadClient)
          => (mar.result = "ConfigError" /\ mar.attempts = 1)

\* C5 witness: a 401 came back to the caller of a manager with no refresh token
C5_Witness ==
    /\ mar.pc = "done" /\ mar.first = Unauthorized /\ ~mar.hadRT
    /\ mar.result = "first" /\ mar.status = Unauthorized

\* C6: a first response whose status is not 401 is returned as it is, with no
\* refresh, no second request and no change to the credential or the record.
C6_OtherStatusReturnedUnchanged ==
    [][(mar.pc = "fetch1" /\ mar'.pc # "fetch1"
            /\ mar'.first \in Statuses \ {Unauthorized})
          => /\ mar'.pc = "done" /\ mar'.result = "first"
             /\ mar'.status = mar'.first
             /\ mar'.attempts = 1 /\ mar'.refreshes = 0
             /\ UNCHANGED <<cred, stored, pendingRefresh, opSeq>>]_vars

\* C6 witness: a 403 returned while a refresh token was held
C6_Witness ==
    /\ mar.pc = "done" /\ mar.first = 403 /\ mar.hadRT
    /\ mar.result = "first" /\ mar.status = 403

\* C7: refreshAccessToken called without refreshToken, clientId or
\* clientSecret rejects with the configuration error, sends nothing to the
\* token endpoint and changes neither the credential nor the record.
C7_RefreshNeedsCredentials ==
    [][(ev'.called /\ opSeq' = opSeq + 1
            /\ (Absent(refreshToken) \/ Absent(clientId) \/ Absent(clientSecret)))
          => /\ pendingRefresh' = pendingRefresh
             /\ UNCHANGED <<cred, stored>>
             /\ ev'.op = "refreshAccessToken" => ev'.result = "ConfigError"
             /\ ev'.op = "firstResponse" => mar'.result = "ConfigError"
             /\ ev'.op \in CheckOps => ev'.cb = "onTokenExpiry"]_vars

\* C7 witness: a direct call with no refresh token was rejected
C7_Witness ==
    /\ ev.op = "refreshAccessToken" /\ ev.result = "ConfigError"
    /\ Absent(refreshToken) /\ ~Absent(clientId) /\ ~Absent(clientSecret)

\* C8: a checkTokenExpiry call (direct, from the timer or through getStatus)
\* calls refreshAccessToken iff refreshToken and tokenExpiry are known and
\* 0 < timeLeft < 5 minutes; with a refresh token and timeLeft <= 0 it returns
\* expired:true and starts no refresh.
C8_RefreshOnlyInWindow ==
    [][ev'.op \in CheckOps
          => LET known == ~Absent(refreshToken) /\ tokenExpiry # NoExpiry
                 timeLeft == tokenExpiry - now
             IN /\ ev'.called <=> (known /\ 0 < timeLeft /\ timeLeft < 5)
                /\ (opSeq' = opSeq + 1) <=> ev'.called
                /\ ~ev'.called => UNCHANGED <<opSeq, pendingRefresh>>
                /\ (known /\ timeLeft <= 0)
                      => (ev'.result = "info" /\ ev'.expired /\ ~ev'.called
                          /\ pendingRefresh' = pendingRefresh)
                /\ ~known => ev'.result = "null"]_vars

\* C8 witness: the timer checked a credential with a refresh token whose
\* expiry had passed
C8_Witness ==
    /\ ev.op = "timer" /\ ev.expired /\ ~ev.called
    /\ ~Absent(refreshToken) /\ tokenExpiry # NoExpiry /\ tokenExpiry - now <= 0

\* C9: checkTokenExpiry returns (null or the expiry object) without throwing
\* and without waiting for the refresh it starts; a refresh it started that
\* fails, or that cannot run for want of clientId/clientSecret, reaches only
\* the onTokenExpiry callback, and the monitor timer stays set.
C9_CheckNeverThrows ==
    [][/\ ev'.op \in CheckOps
             => /\ ev'.result \in {"null", "info"}
                /\ UNCHANGED <<cred, stored, mar, refreshInterval, activeTimers>>
                /\ (ev'.called /\ (Absent(clientId) \/ Absent(clientSecret)))
                      => (ev'.cb = "onTokenExpiry" /\ pendingRefresh' = pendingRefresh)
                /\ (ev'.called /\ ~Absent(clientId) /\ ~Absent(clientSecret))
                      => (ev'.cb = "none" /\ pendingRefresh' # pendingRefresh)
       /\ (ev'.op = "refreshDone" /\ pendingRefresh' # pendingRefresh
              /\ ev'.origin = "check" /\ ev'.result # "ok")
             => /\ ev'.cb = "onTokenExpiry"
                /\ UNCHANGED <<mar, refreshInterval, activeTimers>>]_vars

\* C9 witness: the timer's check could not run its refresh (no clientSecret),
\* the callback got the error and the timer is still set
C9_Witness ==
    /\ ev.op = "timer" /\ ev.result = "info" /\ ev.called
    /\ ev.cb = "onTokenExpiry" /\ Absent(clientSecret)
    /\ refreshInterval \in activeTimers

\* C10: getAuthHeaders throws the no-token error iff accessToken is absent,
\* and otherwise returns 'Bearer ' + accessToken; it changes no state.
C10_AuthHeaders ==
    [][ev'.op = "getAuthHeaders"
          => /\ (ev'.result = "NoTokenError") <=> Absent(accessToken)
             /\ ~Absent(accessToken)
                   => (ev'.result = "ok" /\ ev'.value = "Bearer " \o accessToken)
             /\ UNCHANGED <<cred, stored, pendingRefresh, pendingExchange, mar>>]_vars

\* C10 witness: the header of a held token was returned
C10_Witness ==
    /\ ev.op = "getAuthHeaders" /\ ev.result = "ok"
    /\ ~Absent(accessToken) /\ ev.value = "Bearer " \o accessToken

\* C11: an exchange answered with an access token (and expires_in) returns
\* with accessToken and refreshToken set to the response's values, tokenExpiry
\* to the time of the answer plus expires_in and the record holding the same
\* three; getStatus() called next reports isAuthenticated, and getAuthHeaders()
\* called next returns 'Bearer ' + that access token.
C11_ExchangeStoresTokens ==
    [][/\ ev'.op = "exchangeDone" =>
          \A x \in pendingExchange \ pendingExchange', resp \in ExchangeResponses :
            (ExchangeComplete(x, resp) /\ ~Absent(resp.access_token)
                /\ resp.expires_in \in Nat)
              => /\ ev'.result = "ok"
                 /\ accessToken' = resp.access_token
                 /\ refreshToken' = resp.refresh_token
                 /\ tokenExpiry' = now + resp.expires_in
                 /\ stored'.kind = "json"
                 /\ stored'.accessToken = resp.access_token
                 /\ stored'.refreshToken = resp.refresh_token
                 /\ stored'.tokenExpiry = now + resp.expires_in
       /\ (ev.op = "exchangeDone" /\ ev.result = "ok" /\ ev'.op = "getStatus")
             => ev'.auth
       /\ (ev.op = "exchangeDone" /\ ev.result = "ok" /\ ev'.op = "getAuthHeaders")
             => (ev'.result = "ok" /\ ev'.value = "Bearer " \o ev.value
                 /\ ev.value = accessToken)]_vars

\* C11 witness: the exchange returned and the tokens of the response are in
\* memory and in the record
C11_Witness ==
    /\ ev.op = "exchangeDone" /\ ev.result = "ok"
    /\ accessToken = "AT1" /\ refreshToken = "RT1" /\ tokenExpiry = now + 6
    /\ stored = JSONStringify(clientId, clientSecret, "AT1", "RT1", now + 6)

\* C12: an exchange that fails for want of clientId or clientSecret fails at
\* the call, before any request to the token endpoint; one that fails on a
\* response without access token or on a transport failure fails at the
\* answer; each leaves the credential and the record as they were and does
\* not invoke onTokenRefresh.
C12_FailedExchangeKeepsState ==
    [][/\ (/\ \/ ev'.op = "exchangeCodeForTokens"
              \/ ev'.op = "handleAuthCallback" /\ ~Absent(page.code)
           /\ (Absent(clientId) \/ Absent(clientSecret)))
             => /\ ev'.result = "ConfigError" /\ ev'.cb = "none"
                /\ UNCHANGED <<cred, stored, pendingExchange, page>>
       /\ ev'.op = "exchangeDone" =>
          \A x \in pendingExchange \ pendingExchange', resp \in ExchangeResponses :
            (ExchangeComplete(x, resp)
                /\ (resp.kind = "transport" \/ Absent(resp.access_token)))
              => /\ ev'.result \in {"TransportError", "ExchangeError"}
                 /\ ev'.cb = "none"
                 /\ UNCHANGED <<cred, stored, page>>]_vars

\* C12 witness: the endpoint answered without an access token to a manager
\* that held tokens, and they are still there
C12_Witness ==
    /\ ev.op = "exchangeDone" /\ ev.result = "ExchangeError"
    /\ accessToken = "AT1" /\ refreshToken = "RT1" /\ stored.accessToken = "AT1"

C14_LastResponseWins ==
    [][/\ (ev'.called /\ ~Absent(refreshToken) /\ ~Absent(clientId)
              /\ ~Absent(clientSecret))
             => (\E r \in pendingRefresh' : r.id = opSeq + 1 /\ r \notin pendingRefresh
                    /\ pendingRefresh' = pendingRefresh \cup {r})
       /\ ev'.op = "refreshDone" =>
          \A r \in pendingRefresh \ pendingRefresh', resp \in RaceResponses :
            (RefreshComplete(r, resp) /\ resp.kind = "json")
              => /\ ev'.result = "ok"
                 /\ accessToken' = resp.access_token
                 /\ tokenExpiry' = now + resp.expires_in
                 /\ stored'.accessToken = resp.access_token
                 /\ stored'.tokenExpiry = now + resp.expires_in
                 /\ pendingRefresh' = pendingRefresh \ {r}]_vars

\* C14 witness: the refresh of the timer's check, issued after the refresh of
\* the 401, succeeded while that one is still in flight, and its token is the
\* one in memory and in the record
C14_Witness ==
    /\ \E r \in pendingRefresh : r.origin = "request" /\ r.id = 2
    /\ opSeq = 3 /\ mar.pc = "refresh"
    /\ ev.op = "refreshDone" /\ ev.origin = "check" /\ ev.result = "ok"
    /\ accessToken = "AT3" /\ stored.accessToken = "AT3"

\* C15: at most one interval is set at any time; startTokenExpiryCheck leaves
\* exactly the new one set, stopTokenExpiryCheck leaves none set and none
\* queued, and a timer-driven check runs only for the interval the manager
\* holds, hence never between a stop and the next start.
C15_OneTimer ==
    [][/\ Cardinality(activeTimers') <= 1
       /\ due' \subseteq activeTimers'
       /\ ev'.op = "startTokenExpiryCheck"
             => /\ refreshInterval' # 0
                /\ refreshInterval' \notin activeTimers
                /\ activeTimers' = {refreshInterval'}
       /\ ev'.op = "stopTokenExpiryCheck"
             => (refreshInterval' = 0 /\ activeTimers' = {} /\ due' = {})
       /\ refreshInterval' = 0 => activeTimers' = {}
       /\ ev'.op = "timer"
             => (refreshInterval # 0 /\ activeTimers = {refreshInterval}
                 /\ due = {refreshInterval})]_vars

\* C15 witness: after a restart and a minute, the check ran for the new
\* interval, the only one set
C15_Witness ==
    /\ ev.op = "timer" /\ refreshInterval = 2 /\ activeTimers = {2} /\ due = {}
    /\ now > 0

\* C16: when the exchange of a handleAuthCallback call succeeds, the call
\* leaves the location without the code; no operation puts a code back, and
\* a handleAuthCallback call made from then on returns false and sends no
\* request, so a second call made after the first has succeeded does not
\* exchange the code again.
C16_CallbackExchangesOnce ==
    [][/\ (ev'.op = "exchangeDone" /\ ev'.origin = "callback"
              /\ pendingExchange' # pendingExchange /\ ev'.result = "ok")
             => Absent(page'.code)
       /\ (ev'.op = "exchangeDone" /\ pendingExchange' # pendingExchange
              /\ ~(ev'.origin = "callback" /\ ev'.result = "ok"))
             => page' = page
       /\ Absent(page.code) => Absent(page'.code)
       /\ (Absent(page.code) /\ ev'.op = "handleAuthCallback")
             => /\ ev'.result = "false"
                /\ UNCHANGED <<pendingExchange, opSeq, cred, stored>>]_vars

\* C16 witness: the second call, made after the first one succeeded, returned
\* false with the tokens of the first in place and nothing in flight
C16_Witness ==
    /\ ev.op = "handleAuthCallback" /\ ev.result = "false"
    /\ Absent(page.code) /\ page.historyState = "{}"
    /\ opSeq = 1 /\ pendingExchange = {}
    /\ accessToken = "AT1" /\ stored.accessToken = "AT1" /\ tokenExpiry = now + 6
    /\ ~Absent(clientId) /\ ~Absent(clientSecret)

\* C17: handleAuthCallback on a location without a code returns false, sends
\* no request and changes neither the credential, the record nor the
\* location.
C17_NoCodeNoOp ==
    [][(ev'.op = "handleAuthCallback" /\ Absent(page.code))
          => /\ ev'.result = "false"
             /\ UNCHANGED <<cred, stored, page, pendingExchange,
                            pendingRefresh, opSeq, mar>>]_vars

\* C17 witness: the call returned false on a page opened without a code, on
\* a manager able to exchange one
C17_Witness ==
    /\ ev.op = "handleAuthCallback" /\ ev.result = "false"
    /\ page = Opened(NULL) /\ opSeq = 0 /\ pendingExchange = {}
    /\ ~Absent(clientId) /\ ~Absent(clientSecret)

C19_AuthenticatedIffValid ==
    [][ev'.op = "getStatus"
          => (ev'.auth <=> (~Absent(accessToken)
                            /\ (tokenExpiry # NoExpiry => now < tokenExpiry)))]_vars

\* null, undefined (a property missing from the record) and '' all read as
\* absent; two values are the same when equal or both absent
Same(a, b) == a = b \/ (Absent(a) /\ Absent(b))

MutatingOps == {"clearTokens", "updateCredentials"}

CompletingOps == {"exchangeDone", "refreshDone"}

C21_CallbackAfterPersisted ==
    [][/\ ev'.op \in CompletingOps
            => /\ (ev'.cb = "onTokenRefresh") <=> (ev'.result = "ok")
               /\ ev'.result = "ok"
                    => /\ ev'.value = accessToken'
                       /\ ev'.expiry = tokenExpiry'
                       /\ stored'.kind = "json"
                       /\ stored'.accessToken = ev'.value
                       /\ stored'.tokenExpiry = ev'.expiry
       /\ ev'.op \notin CompletingOps => ev'.cb # "onTokenRefresh"]_vars

\* C21: every exchangeCodeForTokens or refreshAccessToken that runs to its
\* end invokes onTokenRefresh when and only when it succeeded, once, with
\* the access token and expiry that memory holds at that moment, after the
\* save: the record written holds them too when localStorage accepted the
\* write, and is the one of before when setItem threw; no other step, and no
\* call rejected by its guard, invokes it.
C21_RefreshCallbackOnSuccess ==
    [][/\ ev'.op \in CompletingOps
            => /\ (ev'.cb = "onTokenRefresh") <=> (ev'.result = "ok")
               /\ ev'.result = "ok"
                    => /\ ~Absent(ev'.value)
                       /\ ev'.value = accessToken'
                       /\ ev'.expiry = tokenExpiry'
                       /\ ~storageFull
                            => /\ stored'.kind = "json"
                               /\ stored'.accessToken = ev'.value
                               /\ stored'.tokenExpiry = ev'.expiry
                       /\ storageFull => stored' = stored
       /\ ev'.op \notin CompletingOps => ev'.cb # "onTokenRefresh"]_vars

\* C21 witness: a code exchange succeeded and onTokenRefresh received the
\* token and expiry now in memory and in the record
C21_Witness ==
    /\ ev.op = "exchangeDone" /\ ev.cb = "onTokenRefresh"
    /\ ev.value = "AT1" /\ accessToken = "AT1" /\ stored.accessToken = "AT1"
    /\ ev.expiry = now + 6 /\ tokenExpiry = now + 6

\* C22: every load call returns (it never throws) and leaves every item of
\* localStorage as it was; when nothing is stored under the namespaced key,
\* or the text stored there is not JSON, what it returns is the default.
C22_LoadNeverThrows ==
    [][sm'.op = "load"
         => /\ sm'.result = "returned"
            /\ items' = items
            /\ items[getKey(sm'.namespace, sm'.key)].kind
                 \in {"none", "empty", "garbage"}
                 => sm'.value = DefaultValue]_vars

\* C22 witness: load returned the default for a key holding a text that is
\* not JSON
C22_Witness ==
    /\ sm.op = "load" /\ sm.result = "returned" /\ sm.value = DefaultValue
    /\ items[getKey(sm.namespace, sm.key)] = GarbagePayload

\* a record of the five credential fields, each a string or null
StringOrNull(data) == DOMAIN data = Fields /\ \A f \in Fields : data[f] # UNDEF

\* the value load returns for the text of the object data
Loaded(data) == [kind |-> "object", props |-> data]

\* C23 as stated: save of any record of the five fields (each a string or
\* null) returns true, and a load of the same key in the same namespace
\* that follows returns a record equal to the one saved.
C23_SaveAlwaysRoundTrips ==
    [][/\ (sm'.op = "save" /\ StringOrNull(sm'.data)) => sm'.result = "true"
       /\ (/\ sm.op = "save" /\ StringOrNull(sm.data)
           /\ sm'.op = "load"
           /\ sm'.namespace = sm.namespace /\ sm'.key = sm.key)
             => sm'.value = Loaded(sm.data)]_vars

\* C23: while localStorage accepts the write, save of any record of the five
\* fields (each a string or null) returns true, puts under the namespaced key
\* a text made of that record alone, whatever was there before, and leaves
\* the other keys alone; a load of the same key in the same namespace that
\* follows returns a record equal to the one saved. When setItem throws,
\* save returns false and every item stays as it was.
C23_SaveRoundTrips ==
    [][/\ (sm'.op = "save" /\ StringOrNull(sm'.data))
            => /\ sm'.result = (IF storageFull THEN "false" ELSE "true")
               /\ sm'.result = "false" => items' = items
               /\ sm'.result = "true"
                    => \A k \in StorageKeys :
                         items'[k] = IF k = getKey(sm'.namespace, sm'.key)
                                     THEN [kind |-> "object", props |-> sm'.data]
                                     ELSE items[k]
       /\ (/\ sm.op = "save" /\ sm.result = "true" /\ StringOrNull(sm.data)
           /\ sm'.op = "load"
           /\ sm'.namespace = sm.namespace /\ sm'.key = sm.key)
             => /\ sm'.result = "returned"
                /\ sm'.value = Loaded(sm.data)]_vars

\* C23 witness: a record with accessToken null was saved over an earlier
\* record and loaded back with every field as saved
C23_Witness ==
    /\ sm.op = "load" /\ sm.value.kind = "object"
    /\ DOMAIN sm.value.props = Fields
    /\ sm.value.props["accessToken"] = NULL
    /\ sm.value.props["refreshToken"] = "s"
    /\ items[getKey(sm.namespace, sm.key)] = JSONStringifyData(sm.value.props)

StoringOps == {"clearTokens", "updateCredentials", "exchangeDone",
               "refreshDone"}

\* C24: while setItem throws, saveToStorage returns false and the record
\* stays as it was, and the four operations that save behave as they do
\* otherwise: a code exchange or refresh answered with an access token and
\* expires_in returns normally with the response's values in memory (and
\* onTokenRefresh invoked), clearTokens leaves the three token fields null,
\* updateCredentials sets clientId and clientSecret; getAuthHeaders called
\* next returns 'Bearer ' + the accessToken in memory, or fails with the
\* no-token error when there is none.
C24_StorageFailureTolerated ==
    [][storageFull =>
        /\ ev'.op = "saveToStorage" => (ev'.result = "false" /\ stored' = stored)
        /\ ev'.op \in StoringOps => stored' = stored
        /\ ev'.op = "exchangeDone" =>
             \A x \in pendingExchange \ pendingExchange',
                resp \in ExchangeResponses :
               (/\ ExchangeComplete(x, resp)
                /\ resp.kind # "transport"
                /\ ~Absent(resp.access_token)
                /\ resp.expires_in # NoExpiresIn)
                  => /\ ev'.result = "ok" /\ ev'.cb = "onTokenRefresh"
                     /\ accessToken' = resp.access_token
                     /\ refreshToken' = resp.refresh_token
                     /\ tokenExpiry' = now + resp.expires_in
        /\ ev'.op = "refreshDone" =>
             \A r \in pendingRefresh \ pendingRefresh',
                resp \in RefreshResponses :
               (/\ RefreshComplete(r, resp)
                /\ resp.kind # "transport"
                /\ ~Absent(resp.access_token)
                /\ resp.expires_in # NoExpiresIn)
                  => /\ ev'.result = "ok" /\ ev'.cb = "onTokenRefresh"
                     /\ accessToken' = resp.access_token
                     /\ tokenExpiry' = now + resp.expires_in
        /\ ev'.op = "clearTokens"
             => /\ ev'.result = "ok"
                /\ accessToken' = NULL /\ refreshToken' = NULL
                /\ tokenExpiry' = NoExpiry
        /\ ev'.op = "updateCredentials"
             => /\ ev'.result = "ok"
                /\ \A cid \in ClientIds, sec \in ClientSecrets :
                     UpdateCredentials(cid, sec)
                       => (clientId' = cid /\ clientSecret' = sec)
        /\ (ev.op \in StoringOps /\ ev'.op = "getAuthHeaders")
             => IF Absent(accessToken)
                THEN ev'.result = "NoTokenError"
                ELSE ev'.result = "ok" /\ ev'.value = "Bearer " \o accessToken
      ]_vars

\* C24 witness: with setItem throwing, a code exchange returned normally and
\* memory holds its token while the record has none, and getAuthHeaders
\* returned the header of the token in memory
C24_Witness ==
    /\ storageFull /\ ev.op = "getAuthHeaders"
    /\ ev.value = "Bearer AT1" /\ accessToken = "AT1"
    /\ stored.kind = "none"

\* C25 (as stated): after clearTokens has returned, a refresh or code
\* exchange that was already in flight and completes next leaves accessToken,
\* refreshToken and tokenExpiry absent in memory and in the record.
C25_ClearedStaysCleared ==
    [][(ev.op = "clearTokens" /\ ev'.op \in CompletingOps)
          => /\ Absent(accessToken') /\ Absent(refreshToken')
             /\ tokenExpiry' = NoExpiry
             /\ Absent(stored'.accessToken) /\ Absent(stored'.refreshToken)
             /\ stored'.tokenExpiry = NoExpiry]_vars

\* C26 as stated: with the monitor running, a credential that has refresh
\* token, client id and client secret and started with more than five minutes
\* left, and an endpoint that answers every refresh successfully, the
\* credential never reaches timeLeft <= 0.
C26_NeverExpires == tokenExpiry - now > 0

\* C26: under the same conditions, with lifetimes granted longer than the
\* check interval, the credential reaches timeLeft <= 0 only while a refresh
\* that the monitor started is still unanswered: the monitor starts one at
\* every check that finds less than five minutes left, and nothing bounds the
\* time the endpoint takes to answer.
C26_ExpiredOnlyWhileUnanswered ==
    /\ ~Absent(refreshToken) /\ ~Absent(clientId) /\ ~Absent(clientSecret)
    /\ tokenExpiry # NoExpiry
    /\ tokenExpiry - now <= 0
         => \E r \in pendingRefresh : r.origin = "check"

\* C26 witness: the refresh started by the monitor inside the window was
\* answered before the first token, granted for more than five minutes,
\* expired, and the new lifetime runs
C26_Witness ==
    /\ ev.op = "refreshDone" /\ ev.origin = "check" /\ ev.result = "ok"
    /\ now >= 2 /\ now < FiveMinutes + 1
    /\ accessToken = "AT2" /\ tokenExpiry = now + 6
    /\ pendingRefresh = {}

\* the refresh failures C27 names, as makeAuthenticatedRequest sees them
NamedRefreshFailures == {"RefreshError", "TransportError", "ConfigError"}

\* C27: when the refresh made after a 401 is rejected by the provider, fails
\* in transport or is refused for missing client credentials, the call
\* rejects with that error having sent one request only, and the step leaves
\* credential and record as they were; a transport failure of the first or
\* of the second request rejects the call with that failure, without any
\* refresh being started by it.
C27_FailedRefreshRejectsCall ==
    [][/\ (/\ ev'.op = "refreshDone" /\ ev'.origin = "request"
           /\ ev'.result \in NamedRefreshFailures)
            => /\ mar'.pc = "done" /\ mar'.result = ev'.result
               /\ mar'.attempts = 1 /\ Len(mar'.sent) = 1
               /\ UNCHANGED <<cred, stored>>
       /\ (/\ ev'.op = "firstResponse" /\ mar'.first = Unauthorized
           /\ ~Absent(refreshToken)
           /\ (Absent(clientId) \/ Absent(clientSecret)))
            => /\ mar'.pc = "done" /\ mar'.result = "ConfigError"
               /\ mar'.attempts = 1 /\ Len(mar'.sent) = 1
               /\ UNCHANGED <<cred, stored, pendingRefresh>>
       /\ ev'.op = "firstResponse"
            => (MarFirstResponse(0)
                  => /\ mar'.pc = "done" /\ mar'.result = "TransportError"
                     /\ mar'.attempts = 1
                     /\ UNCHANGED <<cred, stored, pendingRefresh>>)
       /\ ev'.op = "secondResponse"
            => (MarSecondResponse(0)
                  => /\ mar'.pc = "done" /\ mar'.result = "TransportError"
                     /\ mar'.attempts = 2
                     /\ UNCHANGED <<cred, stored, pendingRefresh>>)]_vars

\* C27 witness: the call ended with the provider's rejection of its refresh,
\* one request sent, the token it was made with still in memory
C27_Witness ==
    /\ ev.op = "refreshDone" /\ ev.origin = "request"
    /\ ev.result = "RefreshError"
    /\ mar.pc = "done" /\ mar.result = "RefreshError" /\ mar.attempts = 1
    /\ mar.sent = <<"Bearer " \o accessToken>>

\* C28: a makeAuthenticatedRequest made without an access token fails with
\* the no-token error having sent nothing; otherwise its first request
\* carries 'Bearer ' + the accessToken of that moment, and the retry, sent in
\* the step that ends its refresh, carries 'Bearer ' + the access token of
\* the refresh response, which is then the one in memory; requests are sent
\* by those two steps only, one header per attempt.
C28_RequestsCarryBearer ==
    [][/\ ev'.op = "makeAuthenticatedRequest"
            => IF Absent(accessToken)
               THEN /\ ev'.result = "NoTokenError"
                    /\ mar'.result = "NoTokenError" /\ mar'.pc = "done"
                    /\ mar'.sent = <<>> /\ mar'.attempts = 0
               ELSE /\ mar'.sent = <<"Bearer " \o accessToken>>
                    /\ mar'.attempts = 1
       /\ (ev'.op = "refreshDone" /\ mar'.sent # mar.sent)
            => \A r \in pendingRefresh \ pendingRefresh',
                  resp \in RefreshResponses :
                 RefreshComplete(r, resp)
                   => /\ r.origin = "request"
                      /\ ~Absent(resp.access_token)
                      /\ accessToken' = resp.access_token
                      /\ mar'.sent = Append(mar.sent,
                                            "Bearer " \o resp.access_token)
                      /\ mar'.attempts = 2
       /\ mar'.sent # mar.sent
            => ev'.op \in {"makeAuthenticatedRequest", "refreshDone"}
       /\ Len(mar'.sent) = mar'.attempts]_vars

\* C28 witness: the retry went out with the token the refresh had just
\* stored, after a first request with the earlier token
C28_Witness ==
    /\ mar.pc = "fetch2" /\ mar.attempts = 2
    /\ mar.sent = <<"Bearer AT1", "Bearer AT2">>
    /\ accessToken = "AT2"

\* C29: onTokenExpiry is invoked by exactly these steps, once each: the end
\* of a failed refresh that a checkTokenExpiry call had started, and the
\* check itself when the refresh it starts is rejected at once for missing
\* client credentials. A failed refresh started directly or by
\* makeAuthenticatedRequest, a failed code exchange and a successful refresh
\* do not invoke it.
C29_ExpiryCallbackOnCheckFailure ==
    [][/\ ev'.op = "refreshDone"
            => ((ev'.cb = "onTokenExpiry")
                  <=> (ev'.origin = "check" /\ ev'.result # "ok"))
       /\ ev'.op \in CheckOps
            => ((ev'.cb = "onTokenExpiry")
                  <=> (/\ ev'.called
                       /\ (Absent(clientId) \/ Absent(clientSecret))))
       /\ ev'.op \notin CheckOps \cup {"refreshDone"}
            => ev'.cb # "onTokenExpiry"
       /\ ev'.op = "refreshDone"
            => \A r \in pendingRefresh \ pendingRefresh' :
                 ev'.origin = r.origin]_vars

\* C29 witness: the provider rejected a refresh that checkTokenExpiry had
\* started, and onTokenExpiry was invoked
C29_Witness ==
    /\ ev.op = "refreshDone" /\ ev.origin = "check"
    /\ ev.result = "RefreshError" /\ ev.cb = "onTokenExpiry"

\* C30: loadFromStorage always returns true or false and leaves the item
\* alone. Over a stored record it returns true and memory takes the record's
\* accessToken, refreshToken (null when absent from it) and tokenExpiry,
\* while clientId and clientSecret take the record's value only when the
\* record has one and keep the configured value otherwise. With nothing
\* stored, or a text that does not parse, it returns false and the five
\* fields stay exactly as they were.
C30_LoadNeverThrows ==
    [][ev'.op = "loadFromStorage"
         => /\ ev'.result \in {"true", "false"}
            /\ stored' = stored
            /\ stored.kind = "json"
                 => /\ ev'.result = "true"
                    /\ accessToken' = (IF Absent(stored.accessToken)
                                       THEN NULL ELSE stored.accessToken)
                    /\ refreshToken' = (IF Absent(stored.refreshToken)
                                        THEN NULL ELSE stored.refreshToken)
                    /\ tokenExpiry' = stored.tokenExpiry
                    /\ clientId' = (IF Absent(stored.clientId)
                                    THEN clientId ELSE stored.clientId)
                    /\ clientSecret' = (IF Absent(stored.clientSecret)
                                        THEN clientSecret
                                        ELSE stored.clientSecret)
            /\ stored.kind \in {"none", "garbage"}
                 => /\ ev'.result = "false"
                    /\ UNCHANGED cred]_vars

\* C30 witness: a record without clientId was loaded: the tokens are the
\* record's, the client id is the configured one, the secret the record's
C30_Witness ==
    /\ ev.op = "loadFromStorage" /\ ev.result = "true"
    /\ Absent(stored.clientId) /\ clientId = "cid"
    /\ stored.clientSecret = "sec2" /\ clientSecret = "sec2"
    /\ accessToken = "AT1" /\ stored.accessToken = "AT1"
    /\ refreshToken = NULL /\ stored.refreshToken = UNDEF

====
